---- MODULE Spec2Model ----
(***************************************************************************)
(* Model of the Funnel library (src/funnel.go): unification of identical   *)
(* operations.  Callers run Execute(operationId, opExeFunc); the first     *)
(* call for an id creates an operationInProcess and a goroutine that runs  *)
(* the operation, the others wait on it.                                   *)
(*                                                                         *)
(* Time is a discrete clock `now`: code steps take no time and interleave  *)
(* freely within one instant, timers (time.After, time.Sleep) fire at the  *)
(* instant they are due, and only the operation body takes time.           *)
(*                                                                         *)
(* A section of code between f.Lock() and its deferred f.Unlock() is one   *)
(* step: the mutex makes these sections atomic with respect to each other, *)
(* and what they write is read outside them only through single flags      *)
(* (done, deleted).                                                        *)
(***************************************************************************)
EXTENDS Integers, FiniteSets, Sequences, TLC

\* ---------------------------------------------------------------- bounds
NumCallers == 2      \* Execute calls (one per calling goroutine)
MaxTime == 3         \* last instant of the clock
MaxTimeout == 2      \* largest Config.timeout tried
MaxCacheTtl == 2     \* largest Config.cacheTtl tried

Callers == 1..NumCallers
Ids == 1..NumCallers         \* operation ids, named in order of first use
Ops == 1..NumCallers         \* operationInProcess instances, in creation order

\* ---------------------------------------------------------------- values
NilVal == 0                       \* nil interface{} (res, panicErr)
NilErr == "nil"                   \* nil error
AppErr == "appError"              \* an error the operation body returns
timeoutError == "timeoutError"    \* the package's timeout sentinel
NoOp == 0                         \* no operationInProcess (absent map entry)

VARIABLES
    now,          \* the clock
    config,       \* Funnel.config: [cacheTtl, timeout]
    opInProcess,  \* Funnel.opInProcess: id -> operationInProcess (NoOp = absent)
    op,           \* the operationInProcess instances created so far
    nOps,         \* number of operationInProcess instances created
    execPc,       \* position of each operation's executor goroutine
    panicking,    \* payload of the panic unwinding an executor goroutine
    evPc,         \* position of each operation's cache-expiry goroutine
    evWake,       \* instant at which that goroutine's Sleep ends
    pc,           \* position of each caller in Execute
    callId,       \* operationId argument of each caller's Execute
    callOp,       \* the operationInProcess each caller got
    callTimer,    \* instant at which the caller's time.After fires
    callRes,      \* what Execute gave the caller: <<kind, res, err>>
    callJoin,     \* history: what the caller found when it joined its operation
    crashed,      \* an uncaught panic ended the process
    hist,         \* history of each operation (not program state)
    heap,         \* content of the objects that values refer to
    copyRes,      \* what ExecuteAndCopyResult gave the caller: <<kind, res, err>>
    mutex         \* Funnel's sync.Mutex: the goroutine that holds it

vars == <<now, config, opInProcess, op, nOps, execPc, panicking, evPc,
          evWake, pc, callId, callOp, callTimer, callRes, callJoin, crashed, hist,
          heap, copyRes, mutex>>

\* all but the mutex
funnelVars == <<now, config, opInProcess, op, nOps, execPc, panicking, evPc,
                evWake, pc, callId, callOp, callTimer, callRes, callJoin,
                crashed, hist, heap, copyRes>>

\* what only ExecuteAndCopyResult and the owners of the values write
copyVars == <<heap, copyRes>>

\* ------------------------------------------------------------ structures
\* operationInProcess before it is created (a slot not yet used)
NoOperation ==
    [operationId |-> 0, done |-> FALSE, res |-> NilVal, err |-> NilErr,
     panicErr |-> NilVal, deleted |-> FALSE, startTime |-> 0, completed |-> FALSE]

\* &operationInProcess{operationId, done: make(chan), startTime: time.Now(),
\*                     deleted: abool.New(), completed: abool.New()}
NewOperation(id) ==
    [operationId |-> id, done |-> FALSE, res |-> NilVal, err |-> NilErr,
     panicErr |-> NilVal, deleted |-> FALSE, startTime |-> now, completed |-> FALSE]

NoResult == <<"none", NilVal, NilErr>>
Returned(res, err) == <<"return", res, err>>
Panicked(payload) == <<"panic", payload, NilErr>>

\* history of one operation (not program state): body invocations, instant
\* the body ended and instant done was closed (-1: not yet), who removed it
\* from the map
NoOpHist == [invoked |-> 0, endTime |-> -1, doneTime |-> -1, evictedBy |-> "none"]

\* history of one call: what the operation it got looked like at that moment.
\* "pending": completion not observable; "completed": completed set, done
\* still open; "cached": done closed less than cacheTtl ago; "expired": done
\* closed cacheTtl ago or more
JoinState(o, t, cTtl) ==
    IF o.done
    THEN IF now < t + cTtl THEN "cached" ELSE "expired"
    ELSE IF o.completed THEN "completed" ELSE "pending"

\* A non-nil value is a reference to an object.  The value the body of
\* execution o returns refers to object o; the copy ExecuteAndCopyResult
\* makes for caller c is object NumCallers + c.  An object has exported and
\* unexported fields (0: the zero value); NoObject: no object at that
\* reference (the body of that execution returns nil).
Refs == 1..(2 * NumCallers)
NoObject == [exported |-> 0, unexported |-> 0]
Object(e, u) == [exported |-> e, unexported |-> u]

\* The goroutines that take the mutex, and the mutex when nobody holds it
Caller(c) == <<"caller", c>>
Executor(o) == <<"executor", o>>
ExpiryOf(o) == <<"expiry", o>>
Free == <<"none", 0>>

\* ------------------------------------------------------------------ New
New(cTtl, t) == [cacheTtl |-> cTtl, timeout |-> t]

InitFunnel ==
    /\ now = 0
    /\ \E cTtl \in 0..MaxCacheTtl, t \in 1..MaxTimeout : config = New(cTtl, t)
    /\ opInProcess = [id \in Ids |-> NoOp]
    /\ op = [o \in Ops |-> NoOperation]
    /\ nOps = 0
    /\ execPc = [o \in Ops |-> "none"]
    /\ panicking = [o \in Ops |-> NilVal]
    /\ evPc = [o \in Ops |-> "none"]
    /\ evWake = [o \in Ops |-> 0]
    /\ pc = [c \in Callers |-> "idle"]
    /\ callId = [c \in Callers |-> 0]
    /\ callOp = [c \in Callers |-> NoOp]
    /\ callTimer = [c \in Callers |-> 0]
    /\ callRes = [c \in Callers |-> NoResult]
    /\ callJoin = [c \in Callers |-> "none"]
    /\ crashed = FALSE
    /\ hist = [o \in Ops |-> NoOpHist]
    /\ copyRes = [c \in Callers |-> NoResult]
    /\ mutex = Free

\* Every body returns a non-nil value, of exported fields only
Init ==
    /\ InitFunnel
    /\ heap = [r \in Refs |-> IF r \in Ops THEN Object(1, 0) ELSE NoObject]

\* ------------------------------------------------ pieces of the handlers
\* (mutant) the lookup never finds the operation
foundNever(id) == FALSE

\* getOperationInProcess: `if op, found := f.opInProcess[operationId]; found`
found(id) == opInProcess[id] # NoOp

\* (mutant) every waiter gets the full timeout, whenever it joins
operationTimeoutFull(o, t) == t

\* wait: operationTimeoutRemaining := timeout - time.Since(op.startTime)
operationTimeoutRemaining(o, t) == t - (now - o.startTime)

\* (mutant) the done case does not look at panicErr
waitDoneNoPanic(o) == Returned(o.res, o.err)

\* wait, case <-op.done
waitDone(o) ==
    IF o.panicErr # NilVal THEN Panicked(o.panicErr) ELSE Returned(o.res, o.err)

\* (mutant) the timer case does not look at completed
waitTimeoutNoRecheck(o) == Returned(NilVal, timeoutError)

\* (mutant) the timer case returns what the operation holds, completed or not
waitTimeoutStale(o) == Returned(o.res, o.err)

\* wait, case <-time.After(operationTimeoutRemaining)
waitTimeout(o) ==
    IF o.completed THEN Returned(o.res, o.err) ELSE Returned(NilVal, timeoutError)

\* (mutant) Execute deletes the operation whatever wait returned
afterWaitAlwaysDelete(r, o) ==
    IF r[1] = "return" /\ ~o.deleted THEN "deleteOperation" ELSE "returned"

\* Execute after wait.  A panic leaves Execute at once.  `if err ==
\* timeoutError` calls deleteOperation, whose check before the lock returns
\* at once when the operation is already deleted.
afterWait(r, o) ==
    IF r[1] = "return" /\ r[3] = timeoutError /\ ~o.deleted
    THEN "deleteOperation"
    ELSE "returned"

\* (mutant) the map entry is not removed
deleteFromMapNothing(o) == opInProcess

\* deleteOperation: delete(f.opInProcess, operation.operationId)
deleteFromMap(o) == [opInProcess EXCEPT ![op[o].operationId] = NoOp]

\* (mutant) the entry of the id is removed without looking at deleted
deleteOperationUnguarded(o, who) ==
    /\ opInProcess' = deleteFromMap(o)
    /\ op' = [op EXCEPT ![o].deleted = TRUE]
    /\ hist' = [hist EXCEPT ![o].evictedBy = who]

\* deleteOperation, under the mutex: `if !operation.deleted.IsSet() { delete; SetTo(true) }`
deleteOperation(o, who) ==
    IF ~op[o].deleted
    THEN /\ opInProcess' = deleteFromMap(o)
         /\ op' = [op EXCEPT ![o].deleted = TRUE]
         /\ hist' = [hist EXCEPT ![o].evictedBy = who]
    ELSE UNCHANGED <<opInProcess, op, hist>>

IsOpInProgress(id) == opInProcess[id] # NoOp

\* --------------------------------------------------------------- callers
\* Execute(operationId, opExeFunc) up to wait's select.
\* getOperationInProcess, under the mutex, returns the operation found or
\* creates one, puts it in the map and starts its goroutine; wait computes
\* the remaining time and arms time.After.
\* Calls are numbered in the order in which they take this step, ids in the
\* order of their first use, and a call starts early enough for its deadline
\* to lie within the clock's range.
ExecuteSection(c, id) ==
    /\ ~crashed
    /\ pc[c] = "idle"
    /\ \A d \in Callers : d < c => pc[d] # "idle"
    /\ \A j \in Ids : j < id => \E d \in Callers : callId[d] = j
    /\ now + config.timeout <= MaxTime
    /\ LET o == IF found(id) THEN opInProcess[id] ELSE nOps + 1
       IN /\ IF found(id)
             THEN UNCHANGED <<opInProcess, op, nOps, execPc, hist>>
             ELSE /\ op' = [op EXCEPT ![o] = NewOperation(id)]
                  /\ opInProcess' = [opInProcess EXCEPT ![id] = o]
                  /\ nOps' = o
                  /\ execPc' = [execPc EXCEPT ![o] = "running"]
                  /\ hist' = [hist EXCEPT ![o].invoked = @ + 1]
          /\ callOp' = [callOp EXCEPT ![c] = o]
          /\ callJoin' = [callJoin EXCEPT ![c] =
                JoinState(op'[o], hist'[o].doneTime, config.cacheTtl)]
          /\ callTimer' = [callTimer EXCEPT ![c] =
                              now + operationTimeoutRemaining(op'[o], config.timeout)]
    /\ callId' = [callId EXCEPT ![c] = id]
    /\ pc' = [pc EXCEPT ![c] = "wait"]
    /\ UNCHANGED <<now, config, panicking, evPc, evWake, callRes, crashed>>
    /\ UNCHANGED copyVars

\* f.Lock(), the section and the deferred f.Unlock() in one step
Execute(c, id) == ExecuteSection(c, id) /\ UNCHANGED mutex

\* wait: the select takes case <-op.done; Execute returns or panics
WaitDone(c) ==
    /\ ~crashed
    /\ pc[c] = "wait"
    /\ op[callOp[c]].done
    /\ callRes' = [callRes EXCEPT ![c] = waitDone(op[callOp[c]])]
    /\ pc' = [pc EXCEPT ![c] = afterWait(callRes'[c], op[callOp[c]])]
    /\ UNCHANGED <<now, config, opInProcess, op, nOps, execPc, panicking,
                   evPc, evWake, callId, callJoin, callOp, callTimer, crashed, hist>>
    /\ UNCHANGED mutex
    /\ UNCHANGED copyVars

\* wait: the select takes case <-time.After(...); when both channels are
\* ready the select picks either.  Execute returns, or goes on to delete.
WaitTimeout(c) ==
    /\ ~crashed
    /\ pc[c] = "wait"
    /\ now >= callTimer[c]
    /\ callRes' = [callRes EXCEPT ![c] = waitTimeout(op[callOp[c]])]
    /\ pc' = [pc EXCEPT ![c] = afterWait(callRes'[c], op[callOp[c]])]
    /\ UNCHANGED <<now, config, opInProcess, op, nOps, execPc, panicking,
                   evPc, evWake, callId, callJoin, callOp, callTimer, crashed, hist>>
    /\ UNCHANGED mutex
    /\ UNCHANGED copyVars

\* deleteOperation called by Execute after a timeout: the body under the
\* mutex, then Execute returns
DeleteSection(c) ==
    /\ ~crashed
    /\ pc[c] = "deleteOperation"
    /\ deleteOperation(callOp[c], "timeout")
    /\ pc' = [pc EXCEPT ![c] = "returned"]
    /\ UNCHANGED <<now, config, nOps, execPc, panicking, evPc, evWake, callId, callJoin,
                   callOp, callTimer, callRes, crashed>>
    /\ UNCHANGED copyVars

\* f.Lock(), the section and the deferred f.Unlock() in one step
Delete(c) == DeleteSection(c) /\ UNCHANGED mutex

\* ------------------------------------------------- the executor goroutine
\* The value opExeFunc() returns in execution o: a reference to the object
\* it made, or nil
opExeFuncValue(o) == IF heap[o] = NoObject THEN NilVal ELSE o

\* (mutant) the executor does not mark the operation completed
opReturnedNotMarked(r, v, e) == [r EXCEPT !.res = v, !.err = e]

\* opInProc.res, opInProc.err = opExeFunc(); opInProc.completed.Set()
opReturned(r, v, e) == [r EXCEPT !.res = v, !.err = e, !.completed = TRUE]

\* opInProc.res, opInProc.err = opExeFunc(); opInProc.completed.Set().
\* The value of execution o is o itself, so that a result tells which
\* execution made it.  The body ends early enough for the cache expiry to
\* lie within the clock's range (a body still running then counts as one
\* that never returns).
OpReturns(o, e) ==
    /\ ~crashed
    /\ execPc[o] = "running"
    /\ now + config.cacheTtl <= MaxTime
    /\ op' = [op EXCEPT ![o] = opReturned(op[o], opExeFuncValue(o), e)]
    /\ execPc' = [execPc EXCEPT ![o] = "deferred"]
    /\ hist' = [hist EXCEPT ![o].endTime = now]
    /\ UNCHANGED <<now, config, opInProcess, nOps, panicking, evPc, evWake,
                   pc, callId, callJoin, callOp, callTimer, callRes, crashed>>
    /\ UNCHANGED mutex
    /\ UNCHANGED copyVars

\* opExeFunc() panics: res and err are not assigned, completed.Set() is
\* skipped, and the deferred closeOperation runs with the panic in flight
OpPanics(o) ==
    /\ ~crashed
    /\ execPc[o] = "running"
    /\ now + config.cacheTtl <= MaxTime
    /\ panicking' = [panicking EXCEPT ![o] = o]
    /\ execPc' = [execPc EXCEPT ![o] = "deferred"]
    /\ hist' = [hist EXCEPT ![o].endTime = now]
    /\ UNCHANGED <<now, config, opInProcess, op, nOps, evPc, evWake,
                   pc, callId, callJoin, callOp, callTimer, callRes, crashed>>
    /\ UNCHANGED mutex
    /\ UNCHANGED copyVars

\* (mutant) a predicate gates the cache: an error is not cached
sleepTimeGated(o) == IF o.err = NilErr THEN config.cacheTtl ELSE 0

\* closeOperation: time.Sleep(f.config.cacheTtl), whatever the operation holds
sleepTime(o) == config.cacheTtl

\* (mutant) closeOperation does not look at deleted
closeOperationUnchecked(o) ==
    /\ ~crashed
    /\ execPc[o] = "deferred"
    /\ op' = [op EXCEPT ![o].panicErr = panicking[o], ![o].done = TRUE]
    /\ panicking' = [panicking EXCEPT ![o] = NilVal]
    /\ evPc' = [evPc EXCEPT ![o] = "sleeping"]
    /\ evWake' = [evWake EXCEPT ![o] = now + config.cacheTtl]
    /\ execPc' = [execPc EXCEPT ![o] = "finished"]
    /\ hist' = [hist EXCEPT ![o].doneTime = now]
    /\ UNCHANGED <<now, config, opInProcess, nOps, pc, callId, callJoin, callOp,
                   callTimer, callRes, crashed>>
    /\ UNCHANGED copyVars

\* defer f.closeOperation(opInProc), under the mutex.  Deleted operation:
\* return at once; a panic in flight was not recovered, goes on unwinding
\* the goroutine and ends the process.  Otherwise: recover, start the
\* cache-expiry goroutine, close(op.done).
closeOperationSection(o) ==
    /\ ~crashed
    /\ execPc[o] = "deferred"
    /\ IF op[o].deleted
       THEN /\ crashed' = (panicking[o] # NilVal)
            /\ execPc' = [execPc EXCEPT ![o] =
                            IF panicking[o] # NilVal THEN "crashed" ELSE "finished"]
            /\ UNCHANGED <<op, panicking, evPc, evWake, hist>>
       ELSE /\ op' = [op EXCEPT ![o].panicErr = panicking[o], ![o].done = TRUE]
            /\ panicking' = [panicking EXCEPT ![o] = NilVal]
            /\ evPc' = [evPc EXCEPT ![o] = "sleeping"]
            /\ evWake' = [evWake EXCEPT ![o] = now + sleepTime(op[o])]
            /\ execPc' = [execPc EXCEPT ![o] = "finished"]
            /\ hist' = [hist EXCEPT ![o].doneTime = now]
            /\ UNCHANGED crashed
    /\ UNCHANGED <<now, config, opInProcess, nOps, pc, callId, callJoin, callOp, callTimer,
                   callRes>>
    /\ UNCHANGED copyVars

\* f.Lock(), the section and the deferred f.Unlock() in one step
closeOperation(o) == closeOperationSection(o) /\ UNCHANGED mutex

\* --------------------------------------------- the cache-expiry goroutine
\* go func() { time.Sleep(f.config.cacheTtl); f.deleteOperation(op) }():
\* the sleep ends and deleteOperation runs (its check before the lock reads
\* the flag that the body under the mutex reads again)
ExpirySection(o) ==
    /\ ~crashed
    /\ evPc[o] = "sleeping"
    /\ now >= evWake[o]
    /\ deleteOperation(o, "cacheTtl")
    /\ evPc' = [evPc EXCEPT ![o] = "finished"]
    /\ UNCHANGED <<now, config, nOps, execPc, panicking, evWake, pc, callId, callJoin,
                   callOp, callTimer, callRes, crashed>>
    /\ UNCHANGED copyVars

\* f.Lock(), the section and the deferred f.Unlock() in one step
Expiry(o) == ExpirySection(o) /\ UNCHANGED mutex

\* --------------------------------------------------- ExecuteAndCopyResult
\* (mutant) the value Execute gave is handed on, not a copy
copyRefShared(c, opRes) == opRes

\* deepcopy.Copy allocates: the copy made for caller c is a new object
copyRef(c, opRes) == NumCallers + c

\* (mutant) the copy keeps nothing of the original
deepcopyCopyZero(obj) == Object(0, 0)

\* deepcopy.Copy(opRes): "Only exported field values can be copied over";
\* an unexported field of the copy has its zero value
deepcopyCopy(obj) == Object(obj.exported, 0)

\* ExecuteAndCopyResult after f.Execute has returned (a panic of Execute
\* leaves ExecuteAndCopyResult too): `if opRes != nil { res =
\* deepcopy.Copy(opRes) }; return res, err`.  A call whose Execute has
\* returned and that takes this step was an ExecuteAndCopyResult call.
ExecuteAndCopyResult(c) ==
    /\ ~crashed
    /\ pc[c] = "returned"
    /\ callRes[c][1] = "return"
    /\ copyRes[c] = NoResult
    /\ LET opRes == callRes[c][2]
           err == callRes[c][3]
       IN IF opRes # NilVal
          THEN /\ heap' = [heap EXCEPT ![NumCallers + c] = deepcopyCopy(heap[opRes])]
               /\ copyRes' = [copyRes EXCEPT ![c] = Returned(copyRef(c, opRes), err)]
          ELSE /\ copyRes' = [copyRes EXCEPT ![c] = Returned(NilVal, err)]
               /\ UNCHANGED heap
    /\ UNCHANGED <<now, config, opInProcess, op, nOps, execPc, panicking, evPc,
                   evWake, pc, callId, callOp, callTimer, callRes, callJoin,
                   crashed, hist>>
    /\ UNCHANGED mutex

\* The caller of ExecuteAndCopyResult changes an exported field of the value
\* it was given ("Use ExecuteAndCopyResult to return a dedicated (copied)
\* object")
MutateResult(c) ==
    /\ ~crashed
    /\ copyRes[c][1] = "return"
    /\ copyRes[c][2] # NilVal
    /\ heap[copyRes[c][2]].exported = 1
    /\ heap' = [heap EXCEPT ![copyRes[c][2]].exported = 2]
    /\ UNCHANGED <<now, config, opInProcess, op, nOps, execPc, panicking, evPc,
                   evWake, pc, callId, callOp, callTimer, callRes, callJoin,
                   crashed, hist, copyRes>>
    /\ UNCHANGED mutex

\* ------------------------------------------------------------- the clock
\* A caller is blocked: outside Execute, or in wait's select with neither
\* channel ready
CallerBlocked(c) ==
    \/ pc[c] \in {"idle", "returned"}
    \/ pc[c] = "wait" /\ ~op[callOp[c]].done /\ now < callTimer[c]

\* An executor goroutine is inside the operation body, or over
ExecutorBlocked(o) == execPc[o] \in {"none", "running", "finished"}

\* A cache-expiry goroutine is asleep, or over
ExpiryBlocked(o) ==
    \/ evPc[o] \in {"none", "finished"}
    \/ evPc[o] = "sleeping" /\ now < evWake[o]

\* Time passes when every goroutine is blocked; the clock starts with the
\* first call.  An uncaught panic ends the process: nothing runs after it.
Tick ==
    /\ ~crashed
    /\ now < MaxTime
    /\ nOps > 0
    /\ \A c \in Callers : CallerBlocked(c)
    /\ \A o \in Ops : ExecutorBlocked(o) /\ ExpiryBlocked(o)
    /\ now' = now + 1
    /\ UNCHANGED <<config, opInProcess, op, nOps, execPc, panicking, evPc,
                   evWake, pc, callId, callJoin, callOp, callTimer, callRes, crashed, hist>>
    /\ UNCHANGED mutex
    /\ UNCHANGED copyVars

\* --------------------------------------------------------- specification
Next ==
    \/ \E c \in Callers, id \in Ids : Execute(c, id)
    \/ \E c \in Callers : WaitDone(c)
    \/ \E c \in Callers : WaitTimeout(c)
    \/ \E c \in Callers : Delete(c)
    \/ \E o \in Ops, e \in {NilErr, AppErr} : OpReturns(o, e)
    \/ \E o \in Ops : OpPanics(o)
    \/ \E o \in Ops : closeOperation(o)
    \/ \E o \in Ops : Expiry(o)
    \/ Tick

Spec == Init /\ [][Next]_vars

\* Scheduling: a goroutine that can take a step eventually takes it, and
\* time passes.  Nothing forces a caller to call Execute or an operation
\* body to end.
Fairness ==
    /\ \A c \in Callers : WF_vars(WaitDone(c) \/ WaitTimeout(c))
    /\ \A c \in Callers : WF_vars(Delete(c))
    /\ \A o \in Ops : WF_vars(closeOperation(o))
    /\ \A o \in Ops : WF_vars(Expiry(o))
    /\ WF_vars(Tick)

FairSpec == Spec /\ Fairness

\* The calls may be ExecuteAndCopyResult calls, and a body returns nil, a
\* value of exported fields only, or a value with an unexported field set
InitCopy ==
    /\ InitFunnel
    /\ heap \in {h \in [Refs -> {NoObject, Object(1, 0), Object(1, 1)}] :
                    \A r \in Refs \ Ops : h[r] = NoObject}

NextCopy ==
    \/ Next
    \/ \E c \in Callers : ExecuteAndCopyResult(c)
    \/ \E c \in Callers : MutateResult(c)

CopySpec == InitCopy /\ [][NextCopy]_vars

\* ------------------------------------------------------------ the mutex
\* The same program with f.Lock() as a step of its own: a goroutine at
\* f.Lock() takes the mutex when it is free, then runs its section, whose
\* deferred f.Unlock() frees it.  The goroutines outside a section (wait's
\* select, the operation body) run as before.

\* Caller c is about to call Execute
CanExecute(c) ==
    /\ pc[c] = "idle"
    /\ \A d \in Callers : d < c => pc[d] # "idle"
    /\ now + config.timeout <= MaxTime

\* Goroutine t is at an f.Lock(): of getOperationInProcess or deleteOperation
\* (a caller), of closeOperation (an executor), of deleteOperation (a
\* cache-expiry goroutine whose sleep is over)
AtLock(t) ==
    \/ \E c \in Callers :
          t = Caller(c) /\ (CanExecute(c) \/ pc[c] = "deleteOperation")
    \/ \E o \in Ops : t = Executor(o) /\ execPc[o] = "deferred"
    \/ \E o \in Ops : t = ExpiryOf(o) /\ evPc[o] = "sleeping" /\ now >= evWake[o]

Goroutines ==
    {Caller(c) : c \in Callers} \cup {Executor(o) : o \in Ops}
        \cup {ExpiryOf(o) : o \in Ops}

\* f.Lock()
Lock(t) ==
    /\ ~crashed
    /\ AtLock(t)
    /\ mutex = Free
    /\ mutex' = t
    /\ UNCHANGED funnelVars

\* (mutant) a section returns without f.Unlock()
unlockMissing(t) == t

\* defer f.Unlock()
unlock(t) == Free

\* getOperationInProcess between f.Lock() and f.Unlock(), then wait up to
\* its select
LockedExecute(c, id) ==
    /\ mutex = Caller(c)
    /\ ExecuteSection(c, id)
    /\ mutex' = unlock(Caller(c))

\* deleteOperation between f.Lock() and f.Unlock(), called by Execute
LockedDelete(c) ==
    /\ mutex = Caller(c)
    /\ DeleteSection(c)
    /\ mutex' = unlock(Caller(c))

\* closeOperation between f.Lock() and f.Unlock()
LockedCloseOperation(o) ==
    /\ mutex = Executor(o)
    /\ closeOperationSection(o)
    /\ mutex' = unlock(Executor(o))

\* deleteOperation between f.Lock() and f.Unlock(), called by the
\* cache-expiry goroutine
LockedExpiry(o) ==
    /\ mutex = ExpiryOf(o)
    /\ ExpirySection(o)
    /\ mutex' = unlock(ExpiryOf(o))

\* Time passes when every goroutine is blocked; one that holds the mutex is
\* not
LockedTick == mutex = Free /\ Tick

NextLock ==
    \/ \E t \in Goroutines : Lock(t)
    \/ \E c \in Callers, id \in Ids : LockedExecute(c, id)
    \/ \E c \in Callers : WaitDone(c)
    \/ \E c \in Callers : WaitTimeout(c)
    \/ \E c \in Callers : LockedDelete(c)
    \/ \E o \in Ops, e \in {NilErr, AppErr} : OpReturns(o, e)
    \/ \E o \in Ops : OpPanics(o)
    \/ \E o \in Ops : LockedCloseOperation(o)
    \/ \E o \in Ops : LockedExpiry(o)
    \/ LockedTick

LockSpec == Init /\ [][NextLock]_vars

\* ------------------------------------------------- the executor's writes
\* The same program with the executor's writes as steps of their own:
\* `opInProc.res, opInProc.err = opExeFunc()` assigns res, then err, and
\* completed.Set() follows; the callers may run in between.

\* opExeFunc() returns and res is assigned
OpAssignsRes(o) ==
    /\ ~crashed
    /\ execPc[o] = "running"
    /\ now + config.cacheTtl <= MaxTime
    /\ op' = [op EXCEPT ![o].res = opExeFuncValue(o)]
    /\ execPc' = [execPc EXCEPT ![o] = "resAssigned"]
    /\ hist' = [hist EXCEPT ![o].endTime = now]
    /\ UNCHANGED <<now, config, opInProcess, nOps, panicking, evPc, evWake,
                   pc, callId, callJoin, callOp, callTimer, callRes, crashed>>
    /\ UNCHANGED mutex
    /\ UNCHANGED copyVars

\* err is assigned
OpAssignsErr(o, e) ==
    /\ ~crashed
    /\ execPc[o] = "resAssigned"
    /\ op' = [op EXCEPT ![o].err = e]
    /\ execPc' = [execPc EXCEPT ![o] = "errAssigned"]
    /\ UNCHANGED <<now, config, opInProcess, nOps, panicking, evPc, evWake,
                   pc, callId, callJoin, callOp, callTimer, callRes, crashed, hist>>
    /\ UNCHANGED mutex
    /\ UNCHANGED copyVars

\* opInProc.completed.Set()
completedSet(r) == [r EXCEPT !.completed = TRUE]

\* opInProc.completed.Set(); the goroutine's function returns and its
\* deferred closeOperation is next
OpSetsCompleted(o) ==
    /\ ~crashed
    /\ execPc[o] = "errAssigned"
    /\ op' = [op EXCEPT ![o] = completedSet(op[o])]
    /\ execPc' = [execPc EXCEPT ![o] = "deferred"]
    /\ UNCHANGED <<now, config, opInProcess, nOps, panicking, evPc, evWake,
                   pc, callId, callJoin, callOp, callTimer, callRes, crashed, hist>>
    /\ UNCHANGED mutex
    /\ UNCHANGED copyVars

NextAssign ==
    \/ \E c \in Callers, id \in Ids : Execute(c, id)
    \/ \E c \in Callers : WaitDone(c)
    \/ \E c \in Callers : WaitTimeout(c)
    \/ \E c \in Callers : Delete(c)
    \/ \E o \in Ops : OpAssignsRes(o)
    \/ \E o \in Ops, e \in {NilErr, AppErr} : OpAssignsErr(o, e)
    \/ \E o \in Ops : OpSetsCompleted(o)
    \/ \E o \in Ops : OpPanics(o)
    \/ \E o \in Ops : closeOperation(o)
    \/ \E o \in Ops : Expiry(o)
    \/ Tick

AssignSpec == Init /\ [][NextAssign]_vars

TypeOK ==
    /\ now \in 0..MaxTime
    /\ nOps \in 0..NumCallers
    /\ \A id \in Ids : opInProcess[id] \in 0..nOps
    /\ \A c \in Callers : callOp[c] \in 0..nOps

\* ================================================================ claims

\* wait is over for caller c: Execute has its outcome
Resolved(c) == pc[c] \in {"deleteOperation", "returned"}

\* (nil, timeoutError)
TimedOut == Returned(NilVal, timeoutError)

\* The outcome an operation holds once its body has ended and was recorded
OperationOutcome(o) ==
    IF o.panicErr # NilVal THEN Panicked(o.panicErr) ELSE Returned(o.res, o.err)

\* Operation o is completed and within its cacheTtl window: done was closed
\* less than cacheTtl ago
Cached(o) == op[o].done /\ now < hist[o].doneTime + config.cacheTtl

\* cacheTtl has elapsed since operation o completed
Expired(o) == op[o].done /\ now >= hist[o].doneTime + config.cacheTtl

\* The deadline all waiters of operation o share: startTime + timeout
Deadline(o) == op[o].startTime + config.timeout

\* The body of operation o had not ended by the deadline
NotEndedByDeadline(o) ==
    \/ hist[o].endTime > Deadline(o)
    \/ hist[o].endTime = -1 /\ now > Deadline(o)

\* A waiter's timeout removed operation o from the map
EvictedByTimeout(o) == op[o].deleted /\ hist[o].evictedBy = "timeout"

\* Caller c leaves wait in this step
Resolves(c) == pc[c] = "wait" /\ pc'[c] # "wait"

\* Caller c takes its Execute step (it leaves "idle")
Calls(c) == pc[c] = "idle" /\ pc'[c] # "idle"

\* ---------------------------------------------------------------------
\* C1: the operation body is invoked exactly once per operationInProcess:
\* an Execute call that finds an operation for its id in the map joins it
\* and starts nothing; a call that finds none creates one operation, whose
\* body is invoked once.
C1_InvokedOncePerOperation ==
    [][/\ \A o \in Ops : hist'[o].invoked = (IF o <= nOps' THEN 1 ELSE 0)
       /\ \A c \in Callers : Calls(c) =>
            LET id == callId'[c]
            IN IF opInProcess[id] # NoOp
               THEN /\ callOp'[c] = opInProcess[id]
                    /\ nOps' = nOps
                    /\ execPc' = execPc
                    /\ hist' = hist
               ELSE /\ callOp'[c] = nOps + 1
                    /\ nOps' = nOps + 1
                    /\ opInProcess'[id] = nOps + 1
                    /\ execPc'[nOps + 1] = "running"]_vars

\* Two calls share one operation, whose body was invoked once
C1_Witness ==
    \E c, d \in Callers :
        /\ c # d
        /\ callOp[c] # NoOp
        /\ callOp[c] = callOp[d]
        /\ hist[callOp[c]].invoked = 1

\* ---------------------------------------------------------------------
\* C2 (as stated): any two calls that joined an operation before its
\* completion was observable get the same outcome.
C2_SameOutcome ==
    \A c, d \in Callers :
        /\ Resolved(c) /\ Resolved(d)
        /\ callOp[c] = callOp[d]
        /\ callJoin[c] = "pending" /\ callJoin[d] = "pending"
        => callRes[c] = callRes[d]

\* C2 (amended): a call that joined an operation before its completion was
\* observable gets (nil, timeoutError) or the outcome recorded on that
\* operation - the (value, error) of its own execution, or its panic
\* payload; so two such calls that did not time out get the same outcome.
C2_SameOutcomeOrTimeout ==
    /\ \A c \in Callers :
          Resolved(c) /\ callJoin[c] = "pending" =>
             LET o == op[callOp[c]]
             IN \/ callRes[c] = TimedOut
                \/ /\ o.done \/ o.completed
                   /\ callRes[c] = OperationOutcome(o)
                   /\ callRes[c][2] = callOp[c]
    /\ \A c, d \in Callers :
          /\ Resolved(c) /\ Resolved(d)
          /\ callOp[c] = callOp[d]
          /\ callJoin[c] = "pending" /\ callJoin[d] = "pending"
          /\ callRes[c] # TimedOut /\ callRes[d] # TimedOut
          => callRes[c] = callRes[d]

\* Two calls joined one pending operation and both got its outcome
C2_Witness ==
    \E c, d \in Callers :
        /\ c # d
        /\ Resolved(c) /\ Resolved(d)
        /\ callOp[c] = callOp[d]
        /\ callJoin[c] = "pending" /\ callJoin[d] = "pending"
        /\ callRes[c] # TimedOut
        /\ callRes[c] = callRes[d]

C4_ExpiredNotServed ==
    [][\A c \in Callers : Calls(c) =>
          \A o \in Ops :
              Expired(o) /\ op[o].operationId = callId'[c] =>
                  /\ callOp'[c] # o
                  /\ opInProcess[callId'[c]] \in {NoOp, o} =>
                        nOps' = nOps + 1 /\ hist'[nOps'].invoked = 1]_vars

\* ---------------------------------------------------------------------
\* C5: if the body of an operation has not ended by the operation's
\* deadline startTime + timeout, every call that waited on it returns
\* (nil, timeoutError), never the operation's value.
C5_TimeoutWhenNotCompletedByDeadline ==
    \A c \in Callers :
        Resolved(c) /\ NotEndedByDeadline(callOp[c]) => callRes[c] = TimedOut

\* Two calls timed out on one operation whose body ended after the deadline
C5_Witness ==
    \E c, d \in Callers :
        /\ c # d
        /\ callOp[c] = callOp[d]
        /\ pc[c] = "returned" /\ pc[d] = "returned"
        /\ callRes[c] = TimedOut /\ callRes[d] = TimedOut
        /\ hist[callOp[c]].endTime > Deadline(callOp[c])
        /\ op[callOp[c]].completed

\* ---------------------------------------------------------------------
\* C6: all waiters of an operation share the deadline startTime + timeout:
\* a call that joins at elapsed time e arms a timer of timeout - e, already
\* expired when e >= timeout, so no call is blocked in wait once the clock
\* has reached startTime + timeout.
C6_SharedAbsoluteDeadline ==
    \A c \in Callers :
        pc[c] = "wait" =>
            /\ callTimer[c] = Deadline(callOp[c])
            /\ now >= Deadline(callOp[c]) => ~CallerBlocked(c)

\* A call joined a cached operation after the deadline (e > timeout): it is
\* in wait's select with its timer already expired
C6_Witness ==
    \E c \in Callers :
        /\ pc[c] = "wait"
        /\ now > Deadline(callOp[c])
        /\ callTimer[c] < now
        /\ ~CallerBlocked(c)

\* ---------------------------------------------------------------------
\* C7 (as stated): when the body of an operation has panicked, every call
\* that leaves wait on that operation - also one that joined after the
\* failure, while the operation was still in the map - re-raises the panic
\* payload; none returns a (value, error) or timeoutError.
C7_PanicReachesEveryCaller ==
    [][\A c \in Callers :
          Resolves(c) /\ op[callOp[c]].done /\ op[callOp[c]].panicErr # NilVal =>
              callRes'[c] = Panicked(op[callOp[c]].panicErr)]_vars

\* ---------------------------------------------------------------------
\* C8: after a waiter's timeout has removed an operation from the map, an
\* Execute call for the same id never gets that operation: the map no longer
\* holds it, the next call creates a new operation and starts its body -
\* while the old executor still runs, after it has ended, and with cacheTtl
\* not yet expired - and no call returns the value of an execution other
\* than its own operation's.
C8_FreshAfterTimeoutEviction ==
    [][/\ \A o \in Ops :
            EvictedByTimeout(o)' => opInProcess'[op'[o].operationId] # o
       /\ \A c \in Callers : Calls(c) =>
            \A o \in Ops :
                EvictedByTimeout(o) /\ op[o].operationId = callId'[c] =>
                    /\ callOp'[c] # o
                    /\ opInProcess[callId'[c]] = NoOp =>
                          /\ nOps' = nOps + 1
                          /\ callOp'[c] = nOps'
                          /\ execPc'[nOps'] = "running"
                          /\ hist'[nOps'].invoked = 1
       /\ \A c \in Callers :
            Resolved(c)' => callRes'[c][2] \in {NilVal, callOp'[c]}]_vars

\* The first operation was evicted by a timeout, its body has ended since,
\* less than cacheTtl ago; a later call for the same id has its own operation
\* and got that operation's value
C8_Witness ==
    \E c \in Callers, o \in Ops :
        /\ EvictedByTimeout(o)
        /\ op[o].completed
        /\ now < hist[o].endTime + config.cacheTtl
        /\ callOp[c] > o
        /\ op[callOp[c]].operationId = op[o].operationId
        /\ pc[c] = "returned"
        /\ callRes[c] = Returned(callOp[c], op[callOp[c]].err)

\* ---------------------------------------------------------------------
\* C9 (as stated): every Execute call eventually returns - with a result,
\* timeoutError or a re-raised panic.
C9_EveryCallReturns ==
    \A c \in Callers : (pc[c] # "idle") ~> (pc[c] = "returned")

\* ---------------------------------------------------------------------
\* C10 (as stated): once the executor of an operation has been started it
\* runs the body to its end and records the outcome on the operation -
\* (res, err) with completed set, or panicErr - also when waiters timed out
\* and the operation was deleted in the meantime.
C10_OutcomeRecorded ==
    \A o \in Ops :
        hist[o].invoked = 1 /\ execPc[o] \notin {"running", "deferred"} =>
            op[o].completed \/ op[o].panicErr # NilVal

\* The body of operation o is executing
Executing(o) == execPc[o] = "running"

EvictionStep(r) ==
    \/ \E c \in Callers :
          pc[c] = "deleteOperation" /\ pc'[c] = "returned" /\ callOp[c] = r
    \/ evPc[r] = "sleeping" /\ evPc'[r] = "finished"

\* C12: evicting an operation r, by a waiter that timed out or by r's
\* cache-expiry goroutine, removes the map entry of r's id only if that entry
\* is r itself: a late eviction of r never removes a newer operation created
\* under the same id, and no step removes an entry without marking the
\* operation it held deleted.
C12_EvictionRemovesOnlyItself ==
    [][/\ \A r \in Ops : EvictionStep(r) =>
            \A id \in Ids :
                opInProcess'[id] # opInProcess[id] =>
                    /\ id = op[r].operationId
                    /\ opInProcess[id] = r
                    /\ opInProcess'[id] = NoOp
       /\ \A id \in Ids :
            opInProcess[id] # NoOp /\ opInProcess'[id] # opInProcess[id] =>
                /\ ~op[opInProcess[id]].deleted
                /\ op'[opInProcess[id]].deleted]_vars

\* A waiter timed out on an operation before its body returned; the
\* cache-expiry goroutine removed that operation before the waiter's
\* deleteOperation ran; a newer operation of the same id is in the map
C12_Witness ==
    \E c \in Callers, p \in Ops :
        /\ pc[c] = "returned"
        /\ callRes[c] = TimedOut
        /\ op[callOp[c]].completed
        /\ hist[callOp[c]].evictedBy = "cacheTtl"
        /\ p > callOp[c]
        /\ op[p].operationId = op[callOp[c]].operationId
        /\ opInProcess[op[p].operationId] = p
        /\ ~op[p].deleted

\* ---------------------------------------------------------------------
\* ExecuteAndCopyResult returns to caller c in this step
Copies(c) == copyRes[c] = NoResult /\ copyRes'[c] # NoResult

\* Caller c changes the value ExecuteAndCopyResult gave it in this step
Mutates(c) ==
    /\ copyRes'[c] = copyRes[c]
    /\ copyRes[c][2] # NilVal
    /\ heap'[copyRes[c][2]] # heap[copyRes[c][2]]

\* What ExecuteAndCopyResult returns is a new value: not the one Execute
\* gave, not an operation's stored value, not a value given to another
\* caller; with the error Execute gave.  A nil value is returned as nil and
\* nothing is copied.
CopyIsDistinct(c) ==
    LET opRes == callRes[c][2]
        res == copyRes'[c][2]
    IN /\ copyRes'[c][1] = "return"
       /\ copyRes'[c][3] = callRes[c][3]
       /\ IF opRes = NilVal
          THEN res = NilVal /\ heap' = heap
          ELSE /\ res # NilVal
               /\ res # opRes
               /\ \A o \in Ops : res # op[o].res
               /\ \A d \in Callers \ {c} :
                     res # copyRes[d][2] /\ res # callRes[d][2]

\* A change of caller c's value is seen through no operation's stored value
\* and through no other caller's value
MutationIsPrivate(c) ==
    /\ \A o \in Ops : op[o].res # NilVal => heap'[op[o].res] = heap[op[o].res]
    /\ \A d \in Callers \ {c} :
          /\ copyRes[d][2] # NilVal => heap'[copyRes[d][2]] = heap[copyRes[d][2]]
          /\ callRes[d][2] # NilVal => heap'[callRes[d][2]] = heap[callRes[d][2]]

\* C13 (as stated): an ExecuteAndCopyResult call returns a value equal in
\* content to the operation's value, of an identity distinct from the stored
\* value and from the value of any other caller, so that a mutation of one
\* returned value is seen through no other; a nil value is returned as nil
\* and not copied.
C13_CopyEqualAndDistinct ==
    [][\A c \in Callers :
          /\ Copies(c) =>
                /\ CopyIsDistinct(c)
                /\ callRes[c][2] # NilVal =>
                      heap'[copyRes'[c][2]] = heap[callRes[c][2]]
          /\ Mutates(c) => MutationIsPrivate(c)]_vars

\* C13 (amended): as stated, but the returned value equals the operation's
\* value in its exported fields only; an unexported field has its zero value
\* in the copy.
C13_CopyEqualExportedAndDistinct ==
    [][\A c \in Callers :
          /\ Copies(c) =>
                /\ CopyIsDistinct(c)
                /\ callRes[c][2] # NilVal =>
                      /\ heap'[copyRes'[c][2]].exported = heap[callRes[c][2]].exported
                      /\ heap'[copyRes'[c][2]].unexported = 0
          /\ Mutates(c) => MutationIsPrivate(c)]_vars

\* Two ExecuteAndCopyResult calls shared one operation; one caller changed
\* its value; the other's value and the stored value are as they were
C13_Witness ==
    \E c, d \in Callers :
        /\ c # d
        /\ callOp[c] = callOp[d]
        /\ copyRes[c][2] # NilVal /\ copyRes[d][2] # NilVal
        /\ copyRes[c][2] # copyRes[d][2]
        /\ op[callOp[c]].res \notin {NilVal, copyRes[c][2], copyRes[d][2]}
        /\ heap[copyRes[c][2]].exported = 2
        /\ heap[copyRes[d][2]].exported = 1
        /\ heap[op[callOp[c]].res].exported = 1

\* ---------------------------------------------------------------------
\* The executor of operation o closes done in this step
Closes(o) == ~op[o].done /\ op'[o].done

\* Operation o, in the map, leaves the map in this step
Removed(o) ==
    /\ op[o].operationId # 0
    /\ opInProcess[op[o].operationId] = o
    /\ opInProcess'[op[o].operationId] # o

\* The body of operation o returned an application error and done is closed
CompletedWithError(o) == op[o].done /\ op[o].completed /\ op[o].err = AppErr

Lifecycle(o) ==
    IF op[o].operationId = 0 THEN "none"
    ELSE IF op[o].deleted THEN "Evicted"
    ELSE IF op[o].done THEN "Cached"
    ELSE IF execPc[o] = "running" THEN "Pending"
    ELSE "Completed"

\* The cache-expiry goroutine of o runs deleteOperation in this step, cacheTtl
\* or more after done was closed
TtlEviction(o) ==
    /\ evPc[o] = "sleeping" /\ evPc'[o] = "finished"
    /\ op[o].done
    /\ now >= hist[o].doneTime + config.cacheTtl

\* A waiter of o that got timeoutError runs deleteOperation in this step
TimeoutEviction(o) ==
    \E c \in Callers :
        /\ pc[c] = "deleteOperation" /\ pc'[c] = "returned"
        /\ callOp[c] = o
        /\ callRes[c] = TimedOut

BodyPanicked(o) == hist[o].endTime # -1 /\ ~op[o].completed

\* C16 (as stated): when the body of an operation panics, the executor
\* recovers the payload into the operation's panicErr whatever the state of
\* the operation, also when a waiter's timeout has already deleted it: the
\* panic never leaves the executor goroutine.
C16_PanicCapturedNeverEscapes ==
    /\ ~crashed
    /\ \A o \in Ops :
          BodyPanicked(o) /\ execPc[o] # "deferred" =>
              /\ execPc[o] = "finished"
              /\ op[o].panicErr = o

\* ---------------------------------------------------------------------
\* The body of operation o ends in this step
BodyEnds(o) == execPc[o] = "running" /\ execPc'[o] # "running"

\* C17 (as stated): the executor sets completed when the body ends, on a
\* normal return and on a panic alike, before closeOperation decides
\* whether to close done.
C17_CompletedSetWhenBodyEnds ==
    [][\A o \in Ops :
          BodyEnds(o) => op'[o].completed /\ ~op'[o].done]_vars

\* C17 (amended): the executor sets completed when the body returns
\* normally, before closeOperation decides whether to close done; when the
\* body panics completed is not set, then or later.  Nothing else changes
\* completed, and done is closed only after the body has ended.
C17_CompletedSetOnReturnOnly ==
    [][\A o \in Ops :
          /\ BodyEnds(o) =>
                /\ op'[o].completed <=> panicking'[o] = NilVal
                /\ ~op'[o].done
          /\ ~BodyEnds(o) => op'[o].completed = op[o].completed
          /\ Closes(o) => execPc[o] = "deferred"]_vars

\* One body returned and its operation is completed; another body panicked:
\* its panic was recorded and done closed, and completed is not set
C17_Witness ==
    \E o, p \in Ops :
        /\ op[o].done /\ op[o].completed /\ op[o].panicErr = NilVal
        /\ op[p].done /\ ~op[p].completed /\ op[p].panicErr = p

\* ---------------------------------------------------------------------
\* C18: in wait, a caller that leaves the select while done is still open
\* left through the timer case, its timer being due: it returns the
\* operation's (res, err) if completed is set at that moment and (nil,
\* timeoutError) if it is not; and whatever the state of done, a caller
\* returns timeoutError only when its timer is due and completed is not set.
C18_TimerRechecksCompleted ==
    [][\A c \in Callers : Resolves(c) =>
          LET o == op[callOp[c]]
          IN /\ ~o.done =>
                   /\ now >= callTimer[c]
                   /\ callRes'[c] = IF o.completed
                                    THEN Returned(o.res, o.err)
                                    ELSE TimedOut
             /\ callRes'[c] = TimedOut =>
                   now >= callTimer[c] /\ ~o.completed]_vars

\* The body returned at the deadline; the caller's timer fired before done
\* was closed and the caller returned the operation's value, not a timeout
C18_Witness ==
    \E c \in Callers :
        /\ pc[c] = "returned"
        /\ ~op[callOp[c]].done
        /\ op[callOp[c]].completed
        /\ execPc[callOp[c]] = "deferred"
        /\ callRes[c] = Returned(callOp[c], op[callOp[c]].err)

\* ---------------------------------------------------------------------
\* closeOperation runs for operation o in this step
ExecutorFinishes(o) == execPc[o] = "deferred" /\ execPc'[o] # "deferred"

\* C19: when closeOperation runs on an operation whose deleted flag is set,
\* it does not close done, starts no cache-expiry goroutine and leaves the
\* map as it is; otherwise it closes done and starts one cache-expiry
\* goroutine for this operation, due cacheTtl later, and leaves the map as it
\* is.  done is closed and a cache-expiry goroutine is started in no other
\* step, and closeOperation runs once for an operation.
C19_CloseOperationFrame ==
    [][\A o \in Ops :
          /\ ExecutorFinishes(o) =>
                /\ opInProcess' = opInProcess
                /\ \A p \in Ops \ {o} :
                      op'[p] = op[p] /\ evPc'[p] = evPc[p] /\ evWake'[p] = evWake[p]
                /\ op'[o].deleted = op[o].deleted
                /\ IF op[o].deleted
                   THEN /\ ~op[o].done /\ ~op'[o].done
                        /\ evPc[o] = "none" /\ evPc'[o] = "none"
                   ELSE /\ ~op[o].done /\ op'[o].done
                        /\ evPc[o] = "none" /\ evPc'[o] = "sleeping"
                        /\ evWake'[o] = now + config.cacheTtl
          /\ ~ExecutorFinishes(o) =>
                /\ op'[o].done = op[o].done
                /\ evPc'[o] # evPc[o] => evPc[o] = "sleeping" /\ now >= evWake[o]
          /\ execPc[o] \in {"finished", "crashed"} => execPc'[o] = execPc[o]]_vars

\* closeOperation has run on a deleted operation, which has done open and
\* no cache-expiry goroutine, and on one that was not deleted, which has
\* done closed and a cache-expiry goroutine
C19_Witness ==
    \E o, p \in Ops :
        /\ execPc[o] = "finished" /\ op[o].deleted /\ EvictedByTimeout(o)
        /\ ~op[o].done /\ evPc[o] = "none"
        /\ execPc[p] = "finished" /\ op[p].done /\ evPc[p] # "none"

\* ---------------------------------------------------------------------
\* The goroutine that holds the mutex ends its section and frees the mutex
Unlocks ==
    /\ \/ \E c \in Callers, id \in Ids : LockedExecute(c, id)
       \/ \E c \in Callers : LockedDelete(c)
       \/ \E o \in Ops : LockedCloseOperation(o)
       \/ \E o \in Ops : LockedExpiry(o)
    /\ mutex' = Free

\* C20: the mutex is held only inside getOperationInProcess, deleteOperation
\* and closeOperation: a caller that holds it is not in wait and has not
\* returned, an executor that holds it is not running the operation body, a
\* cache-expiry goroutine that holds it is not asleep; and whoever holds it
\* can end its section and free it, so a goroutine at f.Lock() is never
\* blocked for good.
C20_LockHeldOnlyInSections ==
    /\ mutex \in Goroutines \cup {Free}
    /\ \A c \in Callers :
          mutex = Caller(c) => pc[c] \in {"idle", "deleteOperation"}
    /\ \A o \in Ops :
          /\ mutex = Executor(o) => execPc[o] = "deferred"
          /\ mutex = ExpiryOf(o) => evPc[o] = "sleeping" /\ now >= evWake[o]
    /\ mutex # Free => AtLock(mutex) /\ ENABLED Unlocks
    /\ crashed => mutex = Free

\* The executor of the first operation holds the mutex in closeOperation
\* while a caller that timed out is at f.Lock() in deleteOperation; the body
\* of the second operation runs and its caller is in wait, neither holding it
C20_Witness ==
    /\ mutex = Executor(1)
    /\ pc[1] = "deleteOperation"
    /\ execPc[2] = "running"
    /\ pc[2] = "wait"

\* ---------------------------------------------------------------------
\* The executor of operation o takes a step
ExecutorSteps(o) == execPc'[o] # execPc[o]

\* C21: res, err and panicErr of an operation are each written at most
\* once, by the operation's own executor goroutine, before completed is set
\* (res, err) or done is closed (panicErr), and never after; a caller that
\* returns anything but (nil, timeoutError) left wait with done closed or
\* completed set, and what it returned is what the operation holds: no
\* caller returns a value or error that was not yet written.
C21_ResultsWrittenOnceReadAfter ==
    [][/\ \A o \in Ops :
            /\ op'[o].res # op[o].res =>
                  /\ ExecutorSteps(o) /\ execPc[o] = "running"
                  /\ ~op[o].completed /\ ~op[o].done
            /\ op'[o].err # op[o].err =>
                  /\ ExecutorSteps(o) /\ execPc[o] = "resAssigned"
                  /\ ~op[o].completed /\ ~op[o].done
            /\ op'[o].panicErr # op[o].panicErr =>
                  /\ ExecutorSteps(o) /\ execPc[o] = "deferred"
                  /\ op[o].panicErr = NilVal /\ ~op[o].done
            /\ op'[o].completed # op[o].completed =>
                  /\ ExecutorSteps(o) /\ execPc[o] = "errAssigned"
            /\ Closes(o) => execPc[o] = "deferred"
       /\ \A c \in Callers :
            /\ Resolves(c) /\ callRes'[c] # TimedOut =>
                  op[callOp[c]].done \/ op[callOp[c]].completed
            /\ Resolved(c)' /\ callRes'[c] # TimedOut =>
                  callRes'[c] = OperationOutcome(op'[callOp'[c]])]_vars

\* A caller's timer fired when the executor had assigned res and not yet
\* err: the caller read neither and returned (nil, timeoutError)
C21_Witness ==
    \E c \in Callers :
        /\ Resolved(c)
        /\ callRes[c] = TimedOut
        /\ execPc[callOp[c]] = "resAssigned"
        /\ op[callOp[c]].res = callOp[c]
        /\ ~op[callOp[c]].completed

\* ---------------------------------------------------------------------
\* Operation o has been created
Created(o) == o <= nOps

\* The map holds operation o under o's id
Registered(o) == opInProcess[op[o].operationId] = o

\* C22: in every state (the sections under the mutex being single steps),
\* the deleted flag of an operation is unset if and only if the map holds
\* that very operation under its id; so at most one operation of an id is
\* not deleted, an operation leaves the map at most once, and a deleted
\* operation is never put back.
C22_DeletedIffNotInMap ==
    /\ [](/\ \A o \in Ops : Created(o) => (~op[o].deleted <=> Registered(o))
          /\ \A id \in Ids :
                opInProcess[id] # NoOp =>
                    Created(opInProcess[id]) /\ op[opInProcess[id]].operationId = id
          /\ \A o, p \in Ops :
                /\ Created(o) /\ Created(p) /\ o # p
                /\ op[o].operationId = op[p].operationId
                => op[o].deleted \/ op[p].deleted)
    /\ [][\A o \in Ops :
            Created(o) /\ op[o].deleted =>
                /\ op'[o].deleted
                /\ ~Registered(o)']_vars

\* Two operations of one id: the older is deleted and not in the map, the
\* newer is in the map and not deleted; then the newer one is deleted too
\* and the id has no entry
C22_Witness ==
    \E o, p \in Ops :
        /\ o < p /\ Created(p)
        /\ op[o].operationId = op[p].operationId
        /\ op[o].deleted /\ op[p].deleted
        /\ hist[o].evictedBy = "timeout"
        /\ hist[p].evictedBy = "cacheTtl"
        /\ opInProcess[op[p].operationId] = NoOp

\* ---------------------------------------------------------------------
\* C23 (as stated): every operation created is eventually removed from the
\* map - by a waiter that timed out or by its cache-expiry goroutine -
\* whether its body returns a value, returns an error, panics or never
\* returns; so IsOpInProgress(id) is eventually false.
C23_EveryOperationRemoved ==
    /\ \A o \in Ops : Created(o) ~> (op[o].deleted /\ ~Registered(o))
    /\ \A id \in Ids : IsOpInProgress(id) ~> ~IsOpInProgress(id)

\* ---------------------------------------------------------------------
\* C24 (as stated): an Execute call that joins an operation which has
\* already completed (completed set or done closed) and is still in the map
\* never returns timeoutError and never deletes that operation, also when it
\* joins after startTime + timeout, its timer already expired.
C24_CompletedJoinNeverTimesOut ==
    [][\A c \in Callers : callJoin[c] \in {"completed", "cached"} =>
          /\ Resolves(c) => callRes'[c] # TimedOut
          /\ ~(/\ pc[c] = "deleteOperation" /\ pc'[c] = "returned"
               /\ ~op[callOp[c]].deleted /\ op'[callOp[c]].deleted)]_vars

====
